---- MODULE Spec2Model ----
(***************************************************************************)
(* Model of the timed-option crate (src/src/lib.rs): a TimedOption<T, B>   *)
(* holding an Option<T> and an expiry instant of a TtlBackend B, the       *)
(* TimedValue<T> classification, and the two backends (std::time::Instant  *)
(* with unsigned durations, chrono::DateTime<Utc> with signed durations).  *)
(* Points in time are integers; the clock is a non-decreasing integer.     *)
(***************************************************************************)
EXTENDS Integers, FiniteSets, Sequences, TLC

(***************************************************************************)
(* Bounds                                                                  *)
(***************************************************************************)
\* largest clock reading the model lets the clock reach
MaxClock == 3
\* largest representable point in time of a backend (scaled down)
MaxInstant == 5
\* number of distinct payloads
NumValues == 2

\* a Duration can be larger than any representable distance between instants
MaxDuration == MaxInstant + 1

Payloads == 1..NumValues
Backends == {"Instant", "Chrono"}
Mutators == {"expire", "clear", "take", "take_timed_value"}

(***************************************************************************)
(* Option<T>, &T and TimedValue<T>                                         *)
(***************************************************************************)
None == <<>>
Some(v) == <<v>>
Option_is_some(o) == Len(o) = 1
Option_is_none(o) == Len(o) = 0
\* a shared borrow of a payload
Ref(v) == [ref |-> v]
\* Option::as_ref : &Option<T> -> Option<&T>
Option_as_ref(o) == IF Option_is_some(o) THEN Some(Ref(o[1])) ELSE None

Valid(v) == <<"Valid", v>>
Expired(v) == <<"Expired", v>>
TimedValue_None == <<"None">>

\* every TimedValue<T> over the payloads
TimedValues ==
    {Valid(v) : v \in Payloads} \cup {Expired(v) : v \in Payloads} \cup {TimedValue_None}

\* pub const fn is_valid(&self) -> bool
TimedValue_is_valid(tv) ==
    CASE tv[1] = "Valid" -> TRUE
      [] tv[1] = "Expired" -> FALSE
      [] tv[1] = "None" -> FALSE

\* pub const fn is_expired(&self) -> bool
TimedValue_is_expired(tv) ==
    CASE tv[1] = "Valid" -> FALSE
      [] tv[1] = "Expired" -> TRUE
      [] tv[1] = "None" -> FALSE

\* pub const fn is_none(&self) -> bool
TimedValue_is_none(tv) ==
    CASE tv[1] = "Valid" -> FALSE
      [] tv[1] = "Expired" -> FALSE
      [] tv[1] = "None" -> TRUE

\* has_value that forgets the expired payload
TimedValue_has_value_valid_only(tv) ==
    CASE tv[1] = "Valid" -> TRUE
      [] tv[1] = "Expired" -> FALSE
      [] tv[1] = "None" -> FALSE

\* pub const fn has_value(&self) -> bool
TimedValue_has_value(tv) ==
    CASE tv[1] = "Valid" -> TRUE
      [] tv[1] = "Expired" -> TRUE
      [] tv[1] = "None" -> FALSE

\* pub const fn as_ref(&self) -> TimedValue<&T>
TimedValue_as_ref(tv) ==
    CASE tv[1] = "Valid" -> Valid(Ref(tv[2]))
      [] tv[1] = "Expired" -> Expired(Ref(tv[2]))
      [] tv[1] = "None" -> TimedValue_None

(***************************************************************************)
(* State                                                                   *)
(***************************************************************************)
VARIABLES
    backend,   \* the TtlBackend the container is instantiated with
    clock,     \* what Instant::now() / Utc::now() currently returns
    status,    \* "uninit" (no container yet), "live", "panicked"
    value,     \* TimedOption.value : Option<T>
    ttl,       \* TimedOption.ttl : B (the stored expiry instant)
    ctor,      \* constructor that built the current container
    v0,        \* payload handed to new (0 for empty)
    t0,        \* clock reading at construction
    d0,        \* duration handed to new (0 for empty)
    muts,      \* mutators called on the container since construction
    op,        \* last operation called
    at,        \* clock reading during the last operation
    pre,       \* receiver [value, ttl] the last operation was called on
    ret,       \* what the last operation returned
    reads      \* how many times the last operation read the clock

vars == <<backend, clock, status, value, ttl, ctor, v0, t0, d0, muts, op, at, pre, ret, reads>>

self == [value |-> value, ttl |-> ttl]

(***************************************************************************)
(* TtlBackend                                                              *)
(***************************************************************************)
\* B::Duration : std::time::Duration is unsigned, chrono::Duration is signed
Durations(b) == IF b = "Instant" THEN 0..MaxDuration ELSE (-MaxDuration)..MaxDuration

\* smallest representable point in time
MinInstant(b) == IF b = "Instant" THEN 0 ELSE -MaxInstant

\* fn now() -> Self
now == clock

\* now() is one call of Instant::now() / Utc::now()
now_reads == 1

\* expired() is one call of Instant::now() / Utc::now()
expired_reads == 1

\* add() is `self + dt`: it does not read the clock
add_reads == 0

\* is_valid() compares against one call of Instant::now() / Utc::now()
is_valid_reads == 1

\* is_expired() compares against one call of Instant::now() / Utc::now()
is_expired_reads == 1

\* a sentinel that lies in the future
expired_future == clock + 1

\* fn expired() -> Self : both backends return the current reading
expired == clock

\* `self + dt` panics when the sum is not representable
add_overflows(b, inst, dt) == inst + dt > MaxInstant \/ inst + dt < MinInstant(b)

\* add that ignores the duration
add_ignores_dt(inst, dt) == inst

\* fn add(self, dt) -> Self
add(inst, dt) == inst + dt

\* is_valid that counts the boundary instant as valid
is_valid_inclusive(inst, t) == inst >= t

\* fn is_valid(&self) -> bool, t the reading Instant::now() returns in the call
is_valid(inst, t) == inst > t

\* is_expired that counts the boundary instant as not expired
is_expired_strict(inst, t) == inst < t

\* fn is_expired(&self) -> bool
is_expired(inst, t) == inst <= t

(***************************************************************************)
(* TimedOption<T, B>; s is the receiver [value, ttl], t the clock reading  *)
(* of the call.  Mutators return [self |-> receiver after, ret |-> result] *)
(***************************************************************************)
\* pub fn new(value, ttl) -> Self
new(v, d) == [value |-> Some(v), ttl |-> add(now, d)]

\* empty that keeps a payload
empty_with_value == [value |-> Some(1), ttl |-> expired]

\* pub fn empty() -> Self
empty == [value |-> None, ttl |-> expired]

\* into_option that hands out the payload whatever the expiry
into_option_ignores_expiry(s, t) == s.value

\* pub fn into_option(self) -> Option<T>
into_option(s, t) == IF is_valid(s.ttl, t) THEN s.value ELSE None

\* pub fn into_timed_value(self) -> TimedValue<T>
into_timed_value(s, t) ==
    IF Option_is_some(s.value)
    THEN IF is_valid(s.ttl, t) THEN Valid(s.value[1]) ELSE Expired(s.value[1])
    ELSE TimedValue_None

\* as_ref that stamps the projection with the sentinel instead of the
\* receiver's expiry
as_ref_fresh_expiry(s) == [value |-> Option_as_ref(s.value), ttl |-> expired]

\* pub fn as_ref(&self) -> TimedOption<&T, B>
as_ref(s) == [value |-> Option_as_ref(s.value), ttl |-> s.ttl]

\* pub fn as_option(&self) -> Option<&T>
as_option(s, t) == into_option(as_ref(s), t)

\* pub fn as_timed_value(&self) -> TimedValue<&T>
as_timed_value(s, t) == into_timed_value(as_ref(s), t)

\* expire that leaves the expiry as it was
expire_keeps_ttl(s) == [self |-> s, ret |-> <<>>]

\* pub fn expire(&mut self)
expire(s) == [self |-> [value |-> s.value, ttl |-> expired], ret |-> <<>>]

\* clear that leaves the payload in place
clear_keeps_value(s) == [self |-> s, ret |-> <<>>]

\* pub fn clear(&mut self)
clear(s) == [self |-> [value |-> None, ttl |-> s.ttl], ret |-> <<>>]

\* take that hands out the payload whatever the expiry
take_ignores_expiry(s, t) ==
    [self |-> [value |-> None, ttl |-> s.ttl], ret |-> s.value]

\* take that removes the payload only when it hands it out
take_keeps_expired(s, t) ==
    IF is_valid(s.ttl, t)
    THEN [self |-> [value |-> None, ttl |-> s.ttl], ret |-> s.value]
    ELSE [self |-> s, ret |-> None]

\* pub fn take(&mut self) -> Option<T>
take(s, t) ==
    [self |-> [value |-> None, ttl |-> s.ttl],
     ret  |-> IF is_valid(s.ttl, t) THEN s.value ELSE None]

\* take_timed_value that also resets the expiry to the sentinel
take_timed_value_resets_expiry(s, t) ==
    [self |-> [value |-> None, ttl |-> expired],
     ret  |-> into_timed_value(s, t)]

\* pub fn take_timed_value(&mut self) -> TimedValue<T>
take_timed_value(s, t) ==
    [self |-> [value |-> None, ttl |-> s.ttl],
     ret  |-> IF Option_is_some(s.value)
              THEN IF is_valid(s.ttl, t) THEN Valid(s.value[1]) ELSE Expired(s.value[1])
              ELSE TimedValue_None]

\* pub fn is_some(&self) -> bool
is_some(s, t) == Option_is_some(s.value) /\ is_valid(s.ttl, t)

\* pub fn is_none(&self) -> bool
is_none(s, t) == Option_is_none(s.value) \/ is_expired(s.ttl, t)

(***************************************************************************)
(* Clock reads of one call of each TimedOption operation: the sum over the *)
(* backend calls in its body (none of them sits behind a short-circuit).   *)
(***************************************************************************)
new_reads == now_reads + add_reads
empty_reads == expired_reads
into_option_reads == is_valid_reads
into_timed_value_reads == is_valid_reads
as_ref_reads == 0
as_option_reads == as_ref_reads + into_option_reads
as_timed_value_reads == as_ref_reads + into_timed_value_reads
expire_reads == expired_reads
clear_reads == 0
take_reads == is_valid_reads
take_timed_value_reads == is_valid_reads
is_some_reads == is_valid_reads

\* an is_none that negates is_valid and also asks is_expired
is_none_reads_both == is_valid_reads + is_expired_reads

is_none_reads == is_expired_reads

(***************************************************************************)
(* Initial state: a backend is chosen, no container has been built yet.    *)
(***************************************************************************)
Init ==
    /\ backend \in Backends
    /\ clock = 0
    /\ status = "uninit"
    /\ value = None
    /\ ttl = 0
    /\ ctor = "none"
    /\ v0 = 0
    /\ t0 = 0
    /\ d0 = 0
    /\ muts = {}
    /\ op = "none"
    /\ at = 0
    /\ pre = [value |-> None, ttl |-> 0]
    /\ ret = <<>>
    /\ reads = 0

(***************************************************************************)
(* Actions                                                                 *)
(***************************************************************************)
\* the clock advances (never goes back)
Tick ==
    /\ status # "panicked"
    /\ clock < MaxClock
    /\ clock' = clock + 1
    /\ UNCHANGED <<backend, status, value, ttl, ctor, v0, t0, d0, muts, op, at, pre, ret, reads>>

\* let token = TimedOption::new(v, d), the addition is representable
NewOk(v, d) ==
    /\ status # "panicked"
    /\ ~add_overflows(backend, now, d)
    /\ value' = new(v, d).value
    /\ ttl' = new(v, d).ttl
    /\ status' = "live"
    /\ ctor' = "new"
    /\ v0' = v
    /\ t0' = clock
    /\ d0' = d
    /\ muts' = {}
    /\ op' = "new"
    /\ at' = clock
    /\ pre' = new(v, d)
    /\ ret' = <<>>
    /\ reads' = new_reads
    /\ UNCHANGED <<backend, clock>>

\* TimedOption::new(v, d) where `self + dt` panics: no container is returned
NewPanic(v, d) ==
    /\ status # "panicked"
    /\ add_overflows(backend, now, d)
    /\ status' = "panicked"
    /\ op' = "new"
    /\ at' = clock
    /\ reads' = new_reads
    /\ UNCHANGED <<backend, clock, value, ttl, ctor, v0, t0, d0, muts, pre, ret>>

New == \E v \in Payloads : \E d \in Durations(backend) : NewOk(v, d) \/ NewPanic(v, d)

\* let token = TimedOption::empty()
Empty ==
    /\ status # "panicked"
    /\ value' = empty.value
    /\ ttl' = empty.ttl
    /\ status' = "live"
    /\ ctor' = "empty"
    /\ v0' = 0
    /\ t0' = clock
    /\ d0' = 0
    /\ muts' = {}
    /\ op' = "empty"
    /\ at' = clock
    /\ pre' = empty
    /\ ret' = <<>>
    /\ reads' = empty_reads
    /\ UNCHANGED <<backend, clock>>

\* a call of a read on the live container (payload is Copy, as in the test:
\* the consuming reads act on a copy and leave the container in place)
Read(name, result, n) ==
    /\ status = "live"
    /\ op' = name
    /\ at' = clock
    /\ pre' = self
    /\ ret' = result
    /\ reads' = n
    /\ UNCHANGED <<backend, clock, status, value, ttl, ctor, v0, t0, d0, muts>>

IntoOption == Read("into_option", into_option(self, now), into_option_reads)
AsOption == Read("as_option", as_option(self, now), as_option_reads)
IntoTimedValue == Read("into_timed_value", into_timed_value(self, now), into_timed_value_reads)
AsTimedValue == Read("as_timed_value", as_timed_value(self, now), as_timed_value_reads)
AsRef == Read("as_ref", as_ref(self), as_ref_reads)
IsSome == Read("is_some", is_some(self, now), is_some_reads)
IsNone == Read("is_none", is_none(self, now), is_none_reads)

\* a call of a mutator on the live container
Mutate(name, result, n) ==
    /\ status = "live"
    /\ value' = result.self.value
    /\ ttl' = result.self.ttl
    /\ muts' = muts \cup {name}
    /\ op' = name
    /\ at' = clock
    /\ pre' = self
    /\ ret' = result.ret
    /\ reads' = n
    /\ UNCHANGED <<backend, clock, status, ctor, v0, t0, d0>>

Expire == Mutate("expire", expire(self), expire_reads)
Clear == Mutate("clear", clear(self), clear_reads)
Take == Mutate("take", take(self, now), take_reads)
TakeTimedValue == Mutate("take_timed_value", take_timed_value(self, now), take_timed_value_reads)

Next ==
    \/ Tick
    \/ New
    \/ Empty
    \/ IntoOption
    \/ AsOption
    \/ IntoTimedValue
    \/ AsTimedValue
    \/ AsRef
    \/ IsSome
    \/ IsNone
    \/ Expire
    \/ Clear
    \/ Take
    \/ TakeTimedValue

Spec == Init /\ [][Next]_vars

Live == status = "live"

Reads == {"into_option", "as_option", "into_timed_value", "as_timed_value",
          "as_ref", "is_some", "is_none"}
Removers == {"clear", "take", "take_timed_value"}

(***************************************************************************)
(* Properties                                                              *)
(***************************************************************************)

\* C1: a read on the container returned by new(v, ttl), ttl > 0, made before
\* the clock has advanced reports is_some() = true, is_none() = false,
\* into_option() = Some(v) and into_timed_value() = Valid(v).
C1_FreshIsValid ==
    (Live /\ ctor = "new" /\ d0 > 0 /\ muts = {} /\ clock = t0) =>
        /\ is_some(self, now)
        /\ ~is_none(self, now)
        /\ into_option(self, now) = Some(v0)
        /\ into_timed_value(self, now) = Valid(v0)
        /\ (op = "is_some" => ret = TRUE)
        /\ (op = "is_none" => ret = FALSE)
        /\ (op = "into_option" => ret = Some(v0))
        /\ (op = "into_timed_value" => ret = Valid(v0))

C1_Witness ==
    /\ Live /\ ctor = "new" /\ d0 > 0 /\ muts = {} /\ clock = t0
    /\ op = "into_timed_value" /\ at = t0 /\ ret = Valid(v0)

\* C2: after expire() on a container freshly built by new(v, ttl), whatever
\* ttl and v, into_option() is None, into_timed_value() is Expired(v),
\* is_some() is false and is_none() is true.
C2_ExpireFresh ==
    (Live /\ ctor = "new" /\ muts = {"expire"}) =>
        /\ into_option(self, now) = None
        /\ into_timed_value(self, now) = Expired(v0)
        /\ ~is_some(self, now)
        /\ is_none(self, now)
        /\ (op = "into_option" => ret = None)
        /\ (op = "into_timed_value" => ret = Expired(v0))
        /\ (op = "is_some" => ret = FALSE)
        /\ (op = "is_none" => ret = TRUE)

\* the stamped expiry t0 + d0 would still be valid: expire() made the change
C2_Witness ==
    /\ Live /\ ctor = "new" /\ muts = {"expire"}
    /\ is_valid(t0 + d0, now)
    /\ op = "into_timed_value" /\ ret = Expired(v0)

\* C3: in every reachable state and at every clock reading, the boundary
\* reading equal to the stored expiry included, is_some() and is_none() at
\* the same reading are complements, and so are the backend's is_valid()
\* and is_expired().
C3_Complements ==
    Live => \A t \in 0..MaxClock :
        /\ is_some(self, t) <=> ~is_none(self, t)
        /\ is_valid(ttl, t) <=> ~is_expired(ttl, t)

C3_Witness ==
    /\ Live /\ Option_is_some(value) /\ ttl = clock
    /\ op = "is_none" /\ at = clock /\ ret = TRUE

\* C4: on a container holding a payload v whose expiry is not valid at the
\* call, take() returns None while take_timed_value() on the same state
\* returns Expired(v), never TimedValue::None.
C4_TakeExpired ==
    /\ (Live /\ Option_is_some(value) /\ ~is_valid(ttl, now)) =>
           /\ take(self, now).ret = None
           /\ take_timed_value(self, now).ret = Expired(value[1])
    /\ (Live /\ Option_is_some(pre.value) /\ ~is_valid(pre.ttl, at)) =>
           /\ (op = "take" =>
                  /\ ret = None
                  /\ take_timed_value(pre, at).ret = Expired(pre.value[1]))
           /\ (op = "take_timed_value" =>
                  /\ ret = Expired(pre.value[1])
                  /\ ret # TimedValue_None
                  /\ take(pre, at).ret = None)

C4_Witness ==
    /\ Live /\ op = "take" /\ ret = None
    /\ Option_is_some(pre.value) /\ ~is_valid(pre.ttl, at)
    /\ "expire" \notin muts

\* C5: after clear(), whatever the state it was called on, every later read
\* reports absent at any later clock reading: is_some() false, is_none()
\* true, into_option()/as_option() None, into_timed_value()/
\* as_timed_value() TimedValue::None, take() None, take_timed_value()
\* TimedValue::None.
C5_ClearThenAbsent ==
    (Live /\ "clear" \in muts) =>
        /\ ~is_some(self, now)
        /\ is_none(self, now)
        /\ into_option(self, now) = None
        /\ as_option(self, now) = None
        /\ into_timed_value(self, now) = TimedValue_None
        /\ as_timed_value(self, now) = TimedValue_None
        /\ take(self, now).ret = None
        /\ take_timed_value(self, now).ret = TimedValue_None
        /\ (op = "is_some" => ret = FALSE)
        /\ (op = "is_none" => ret = TRUE)
        /\ (op \in {"into_option", "as_option"} => ret = None)
        /\ (op \in {"into_timed_value", "as_timed_value"} => ret = TimedValue_None)
        /\ (op = "take" => ret = None)

\* cleared while the payload was present and valid, read while the expiry
\* is still valid
C5_Witness ==
    /\ Live /\ muts = {"clear"} /\ ctor = "new"
    /\ is_valid(ttl, now)
    /\ op = "as_timed_value" /\ ret = TimedValue_None

\* C6: a container built by new(v, ttl) with ttl = 0, or ttl < 0 for the
\* backend with signed durations, is never classified as valid: on the next
\* read and on every later one is_some() is false and, as long as the
\* payload has not been removed, into_timed_value() is Expired(v).
C6_NonPositiveTtl ==
    (Live /\ ctor = "new" /\ d0 <= 0) =>
        /\ ~is_some(self, now)
        /\ into_timed_value(self, now)[1] # "Valid"
        /\ (muts \cap Removers = {} => into_timed_value(self, now) = Expired(v0))
        /\ (op = "is_some" => ret = FALSE)
        /\ ((op = "into_timed_value" /\ muts \cap Removers = {}) => ret = Expired(v0))

C6_Witness ==
    /\ Live /\ ctor = "new" /\ d0 = 0 /\ muts = {}
    /\ op = "into_timed_value" /\ at = t0 /\ ret = Expired(v0)

\* C7: a container built by empty() reports is_none() true, is_some() false
\* and into_timed_value() TimedValue::None, at once and after any sequence
\* of expire, clear, take, take_timed_value and clock advances.
C7_EmptyIsAbsent ==
    (Live /\ ctor = "empty") =>
        /\ is_none(self, now)
        /\ ~is_some(self, now)
        /\ into_timed_value(self, now) = TimedValue_None
        /\ (op = "is_none" => ret = TRUE)
        /\ (op = "is_some" => ret = FALSE)
        /\ (op = "into_timed_value" => ret = TimedValue_None)

C7_Witness ==
    /\ Live /\ ctor = "empty" /\ muts = Mutators /\ clock > t0
    /\ op = "into_timed_value" /\ ret = TimedValue_None

\* C8 as stated: whenever the value slot is absent the stored expiry is not
\* valid against the current clock reading.
C8_AbsentImpliesExpired ==
    (Live /\ Option_is_none(value)) => ~is_valid(ttl, now)

\* C8: if the value slot is absent the stored expiry is not valid against
\* the current clock reading, unless the slot was emptied by clear, take or
\* take_timed_value on a container built by new with ttl > 0 whose stamped
\* expiry, never replaced by expire, is still ahead of the clock.
C8_AbsentExpiredUnlessRemoved ==
    (Live /\ Option_is_none(value) /\ is_valid(ttl, now)) =>
        /\ ctor = "new"
        /\ d0 > 0
        /\ ttl = t0 + d0
        /\ "expire" \notin muts
        /\ muts \cap Removers # {}

\* the payload was removed after expire(): absent and expired, although the
\* stamped expiry would still be ahead of the clock
C8_Witness ==
    /\ Live /\ ctor = "new" /\ Option_is_none(value)
    /\ "expire" \in muts /\ muts \cap Removers # {}
    /\ ~is_valid(ttl, now) /\ is_valid(t0 + d0, now)

\* C9: the sentinel of expired() is not valid when it is created nor at any
\* later reading of the clock; from the return of expire() on, is_some() is
\* false, into_option()/as_option() are None and take() returns None, under
\* any later operations and clock advances.
C9_ExpiredStaysExpired ==
    /\ (Live /\ op \in {"expire", "empty"}) => ~is_valid(ttl, at)
    /\ (Live /\ (ctor = "empty" \/ "expire" \in muts)) =>
           \A t \in clock..MaxClock : ~is_valid(ttl, t) /\ is_expired(ttl, t)
    /\ (Live /\ "expire" \in muts) =>
           /\ ~is_some(self, now)
           /\ into_option(self, now) = None
           /\ as_option(self, now) = None
           /\ take(self, now).ret = None
           /\ (op = "is_some" => ret = FALSE)
           /\ (op \in {"into_option", "as_option"} => ret = None)
           /\ (op = "take" => ret = None)

\* take() after expire() while the stamped expiry would still be valid
C9_Witness ==
    /\ Live /\ ctor = "new" /\ "expire" \in muts /\ clock > t0
    /\ is_valid(t0 + d0, now)
    /\ op = "take" /\ Option_is_some(pre.value) /\ ret = None

\* C10: add, and so new(value, ttl), is total: no duration makes it panic,
\* and no operation of TimedOption has a panic outcome.
C10_NoPanic == status # "panicked"

\* the calls that return a TimedValue<T>
ReturnsTimedValue == {"into_timed_value", "take_timed_value"}

\* the number of TRUE among a, b and c
CountTrue(a, b, c) ==
    (IF a THEN 1 ELSE 0) + (IF b THEN 1 ELSE 0) + (IF c THEN 1 ELSE 0)

\* what C11 asks of one TimedValue
TimedValue_Classified(tv) ==
    /\ CountTrue(TimedValue_is_valid(tv), TimedValue_is_expired(tv),
                 TimedValue_is_none(tv)) = 1
    /\ TimedValue_is_valid(tv) <=> tv[1] = "Valid"
    /\ TimedValue_is_expired(tv) <=> tv[1] = "Expired"
    /\ TimedValue_is_none(tv) <=> tv[1] = "None"
    /\ TimedValue_has_value(tv) <=> tv[1] \in {"Valid", "Expired"}
    /\ TimedValue_as_ref(tv)[1] = tv[1]
    /\ Len(TimedValue_as_ref(tv)) = Len(tv)
    /\ (tv[1] # "None" => TimedValue_as_ref(tv)[2] = Ref(tv[2]))

\* C11: for each of Valid, Expired and None exactly one of is_valid(),
\* is_expired(), is_none() is true, has_value() is true exactly for Valid
\* and Expired, and as_ref() returns the same variant with the same payload;
\* this holds of every TimedValue and of the ones the container hands out.
C11_TimedValuePredicates ==
    /\ \A tv \in TimedValues : TimedValue_Classified(tv)
    /\ (Live /\ op \in ReturnsTimedValue) => TimedValue_Classified(ret)

\* the container handed out an Expired(v): has_value() and is_expired() only
C11_Witness ==
    /\ Live /\ op = "take_timed_value" /\ ret = Expired(v0)
    /\ TimedValue_has_value(ret) /\ TimedValue_is_expired(ret)
    /\ ~TimedValue_is_valid(ret) /\ ~TimedValue_is_none(ret)
    /\ TimedValue_as_ref(ret) = Expired(Ref(v0))

\* C12: expiry is lazy and strict: a container built by new(v, ttl) at
\* reading t0 and not mutated since is classified at reading t as Valid(v)
\* iff t < t0 + ttl and as Expired(v) iff t >= t0 + ttl; only the clock
\* moves it from one to the other, and the payload stays stored, reported
\* as Expired(v), until take, take_timed_value or clear removes it.
C12_LazyStrictExpiry ==
    /\ (Live /\ ctor = "new" /\ muts = {}) =>
           /\ ttl = t0 + d0
           /\ \A t \in t0..MaxClock :
                  /\ into_timed_value(self, t) = Valid(v0) <=> t < t0 + d0
                  /\ into_timed_value(self, t) = Expired(v0) <=> t >= t0 + d0
                  /\ is_some(self, t) <=> t < t0 + d0
           /\ (op = "as_timed_value" =>
                  ret = IF at < t0 + d0 THEN Valid(Ref(v0)) ELSE Expired(Ref(v0)))
           /\ (op = "into_timed_value" =>
                  ret = IF at < t0 + d0 THEN Valid(v0) ELSE Expired(v0))
    /\ (Live /\ ctor = "new" /\ muts \cap Removers = {}) =>
           /\ value = Some(v0)
           /\ (clock >= t0 + d0 => into_timed_value(self, now) = Expired(v0))

\* read as Expired(v) exactly at the boundary reading t0 + ttl, ttl > 0,
\* with nothing but the clock having touched the container
C12_Witness ==
    /\ Live /\ ctor = "new" /\ muts = {} /\ d0 > 0
    /\ op = "into_timed_value" /\ at = t0 + d0 /\ ret = Expired(v0)
    /\ value = Some(v0) /\ ttl = t0 + d0

\* C13: each mutator changes only its own field: expire() sets the expiry
\* to the sentinel and leaves the value slot as it was; clear() empties the
\* value slot and leaves the expiry as it was; take() and
\* take_timed_value() leave the value slot empty, whether or not the expiry
\* was valid, and leave the expiry as it was.
C13_MutatorFrames ==
    Live =>
        /\ expire(self).self = [value |-> value, ttl |-> expired]
        /\ clear(self).self = [value |-> None, ttl |-> ttl]
        /\ take(self, now).self = [value |-> None, ttl |-> ttl]
        /\ take_timed_value(self, now).self = [value |-> None, ttl |-> ttl]
        /\ (op = "expire" => value = pre.value /\ ttl = at)
        /\ (op = "clear" => value = None /\ ttl = pre.ttl)
        /\ (op = "take" => value = None /\ ttl = pre.ttl)
        /\ (op = "take_timed_value" => value = None /\ ttl = pre.ttl)

\* take_timed_value() removed a payload that was still valid and left the
\* valid expiry in place
C13_Witness ==
    /\ Live /\ op = "take_timed_value" /\ ret = Valid(v0)
    /\ value = None /\ ttl = pre.ttl /\ is_valid(ttl, now)

Takers == {"take", "take_timed_value"}

\* C14: a payload is handed out at most once and take() destroys an expired
\* payload: once take() or take_timed_value() has been called the value
\* slot is empty, the next take() returns None and the next
\* take_timed_value() returns TimedValue::None; a take_timed_value() that
\* follows a take() which returned None on an expired payload v returns
\* TimedValue::None, not Expired(v).
C14_HandedOutOnce ==
    [][ /\ (Live /\ muts \cap Takers # {}) =>
               /\ Option_is_none(value)
               /\ (Take => ret' = None)
               /\ (TakeTimedValue => ret' = TimedValue_None)
        /\ (Live /\ op = "take" /\ Option_is_some(pre.value)
                 /\ ~is_valid(pre.ttl, at) /\ TakeTimedValue) =>
               /\ ret' = TimedValue_None
               /\ ret' # Expired(pre.value[1])
      ]_vars

\* take_timed_value() called on a container built by new, never cleared,
\* whose payload an earlier take had removed
C14_Witness ==
    /\ Live /\ ctor = "new" /\ muts = Takers
    /\ op = "take_timed_value" /\ Option_is_none(pre.value)
    /\ ret = TimedValue_None

\* a step of new or empty: the only steps that record a constructor as the
\* last call without the clock moving
Constructs == op' \in {"new", "empty"} /\ clock' = clock

\* C15: no resurrection: for one container, under expire, clear, take,
\* take_timed_value, the reads and clock advances, once is_none() is true
\* it is true after every further step, and is_some() stays false; only
\* building a new container with new or empty gets a new expiry.
C15_NoResurrection ==
    [][ (Live /\ is_none(self, now) /\ ~Constructs) =>
            /\ is_none([value |-> value', ttl |-> ttl'], clock')
            /\ ~is_some([value |-> value', ttl |-> ttl'], clock')
      ]_vars

\* expire() was called on a payload whose stamped expiry had already
\* passed, and the clock has advanced since: still none
C15_Witness ==
    /\ Live /\ ctor = "new" /\ op = "expire" /\ clock > at
    /\ Option_is_some(pre.value) /\ ~is_valid(pre.ttl, at)
    /\ Option_is_some(value) /\ is_none(self, now)

\* what C16 asks of the reads of receiver s at clock reading t
ReadsAgree(s, t) ==
    /\ is_some(s, t) <=> Option_is_some(into_option(s, t))
    /\ is_some(s, t) <=> TimedValue_is_valid(into_timed_value(s, t))
    /\ is_some(s, t) =>
           /\ into_option(s, t) = Some(s.value[1])
           /\ into_timed_value(s, t) = Valid(s.value[1])
    /\ into_option(s, t) = None <=>
           into_timed_value(s, t)[1] \in {"Expired", "None"}

\* C16: in every reachable state the reads agree at the same clock reading:
\* is_some() is true iff into_option() is Some(v) iff into_timed_value() is
\* Valid(v), with the same v, and into_option() is None exactly when
\* into_timed_value() is Expired(_) or TimedValue::None.
C16_ReadsAgree ==
    Live =>
        /\ \A t \in 0..MaxClock : ReadsAgree(self, t)
        /\ (op = "into_option" =>
               /\ ret = into_option(pre, at)
               /\ Option_is_some(ret) <=> is_some(pre, at)
               /\ ret = None <=> into_timed_value(pre, at)[1] \in {"Expired", "None"})
        /\ (op = "into_timed_value" =>
               /\ TimedValue_is_valid(ret) <=> is_some(pre, at)
               /\ TimedValue_is_valid(ret) <=> Option_is_some(into_option(pre, at)))
        /\ (op = "is_some" =>
               ret = (into_timed_value(pre, at)[1] = "Valid"))

\* into_option() gave None for a payload that into_timed_value() reports
\* as Expired(v)
C16_Witness ==
    /\ Live /\ op = "into_option" /\ ret = None
    /\ into_timed_value(pre, at) = Expired(v0)
    /\ ~is_some(pre, at)

\* the reads that take &self
BorrowingReads == {"as_option", "as_timed_value", "as_ref", "is_some", "is_none"}

\* C17: the borrowing reads match the consuming ones and are read-only: at
\* the same clock reading as_option() is into_option() and as_timed_value()
\* is into_timed_value(), up to the borrow of the payload; as_ref() yields
\* a projection with the same value presence and the same expiry; is_some,
\* is_none, as_option, as_timed_value and as_ref leave the receiver's value
\* slot and expiry as they were.
C17_BorrowingReads ==
    Live =>
        /\ \A t \in 0..MaxClock :
               /\ as_option(self, t) = Option_as_ref(into_option(self, t))
               /\ as_timed_value(self, t) = TimedValue_as_ref(into_timed_value(self, t))
               /\ is_some(as_ref(self), t) <=> is_some(self, t)
               /\ is_none(as_ref(self), t) <=> is_none(self, t)
        /\ as_ref(self).ttl = ttl
        /\ Option_is_some(as_ref(self).value) <=> Option_is_some(value)
        /\ (Option_is_some(value) => as_ref(self).value = Some(Ref(value[1])))
        /\ (op \in BorrowingReads => value = pre.value /\ ttl = pre.ttl)
        /\ (op = "as_option" => ret = Option_as_ref(into_option(pre, at)))
        /\ (op = "as_timed_value" => ret = TimedValue_as_ref(into_timed_value(pre, at)))
        /\ (op = "as_ref" => ret.ttl = pre.ttl
                             /\ Option_is_some(ret.value) <=> Option_is_some(pre.value))

\* as_option() handed out a borrow of a payload that is present and valid,
\* and the payload is still in the container
C17_Witness ==
    /\ Live /\ op = "as_option" /\ ret = Some(Ref(v0))
    /\ into_option(pre, at) = Some(v0)
    /\ value = Some(v0) /\ ttl = pre.ttl

\* what the last call returns as a function of the receiver it was called
\* on and of one clock reading t
ResultAt(t) ==
    CASE op = "into_option" -> into_option(pre, t)
      [] op = "as_option" -> as_option(pre, t)
      [] op = "into_timed_value" -> into_timed_value(pre, t)
      [] op = "as_timed_value" -> as_timed_value(pre, t)
      [] op = "take" -> take(pre, t).ret
      [] op = "take_timed_value" -> take_timed_value(pre, t).ret
      [] op = "is_some" -> is_some(pre, t)
      [] op = "is_none" -> is_none(pre, t)
      [] OTHER -> ret

\* C18: every public TimedOption operation reads the clock at most once per
\* call, so its result is a function of the stored state and of that one
\* reading: a call cannot see the payload as valid in one comparison and as
\* expired in another.
C18_SingleClockRead ==
    /\ \A n \in {new_reads, empty_reads, into_option_reads, as_option_reads,
                 into_timed_value_reads, as_timed_value_reads, as_ref_reads,
                 expire_reads, clear_reads, take_reads, take_timed_value_reads,
                 is_some_reads, is_none_reads} : n <= 1
    /\ reads <= 1
    /\ Live =>
           /\ ret = ResultAt(at)
           /\ (op = "is_none" => ret = ~is_some(pre, at))
           /\ (op = "take_timed_value" =>
                  /\ ret[1] = "Valid" <=> is_some(pre, at)
                  /\ ret[1] = "Expired" <=>
                         (Option_is_some(pre.value) /\ is_expired(pre.ttl, at)))
           /\ (op = "as_timed_value" =>
                  /\ ret[1] = "Valid" <=> is_some(pre, at)
                  /\ ret[1] = "Expired" <=>
                         (Option_is_some(pre.value) /\ is_expired(pre.ttl, at)))

\* as_timed_value(), the read with the longest call chain, made its one
\* clock reading exactly at the stored expiry and reported Expired
C18_Witness ==
    /\ Live /\ op = "as_timed_value" /\ reads = 1
    /\ pre.ttl = at /\ ret = Expired(Ref(v0))

====
